---- MODULE Spec2Model ----
(***************************************************************************)
(* Model of mindexer's main(): workload extraction from the profile        *)
(* documents, candidate index generation, cost scoring with the memoized   *)
(* cardinality estimates, and the greedy index selection.                  *)
(*                                                                         *)
(* Numbers.  The program computes with Python floats.  The model uses      *)
(* exact fixed-point integers:                                             *)
(*   - cardinality estimates are counted in HALF documents (est 0.5 = 1),  *)
(*   - benefits and scores are counted in QUARTER cost units ("ticks"),    *)
(*     so that  benefit = total*1.0 - est*cost  becomes                    *)
(*        4*total - estHalves * (2*cost)                                   *)
(*     with 2*IXSCAN_COST = 1 and 2*FETCH_COST = 20.                       *)
(* The oracle's estimates are 0 or a power of two (in halves), which makes *)
(* log2 of the sort bonus exact.                                           *)
(*                                                                         *)
(* pandas.  A cell of the score table holds the benefit that was computed  *)
(* for it (scores.iat[nq, nc] = benefit), and the in-place mask of line    *)
(* 213 acts on the row of the working matrix it is applied to.             *)
(*                                                                         *)
(* Query.  The Query class (from_mql, fields, index_intersect, is_covered, *)
(* is_subset, can_use_sort, structural equality) and the estimator are     *)
(* imported by main.py; they are modelled from their documented contracts. *)
(***************************************************************************)
EXTENDS Integers, Sequences, FiniteSets, TLC

\* ------------------------------------------------------------------ bounds
MaxDocs == 2        \* profile documents read from system.profile
MaxEstExp == 1      \* oracle estimates are 0 or 4^j halves, j in 0..MaxEstExp
TotalCount == 6     \* estimator.get_cardinality(), in documents

\* ------------------------------------------------------- program constants
MAX_INDEX_FIELDS == 3
IXSCAN_COST_X2 == 1     \* IXSCAN_COST = 0.5, doubled
FETCH_COST == 10
SORT_COST == 10

\* ------------------------------------------------------------ small helpers
RECURSIVE Pow2(_)
Pow2(n) == IF n = 0 THEN 1 ELSE 2 * Pow2(n - 1)

\* np.log2 on an exact power of two (the only arguments the model feeds it)
RECURSIVE Log2(_)
Log2(n) == IF n <= 1 THEN 0 ELSE 1 + Log2(n \div 2)

Min(a, b) == IF a < b THEN a ELSE b
Max(a, b) == IF a > b THEN a ELSE b
MaxOf(S) == CHOOSE x \in S : \A y \in S : y <= x
Range(s) == {s[j] : j \in 1..Len(s)}

RECURSIVE SumOver(_, _)
SumOver(f, S) ==
    IF S = {} THEN 0
    ELSE LET x == CHOOSE y \in S : TRUE IN f[x] + SumOver(f, S \ {x})

\* ------------------------------------------------------------ Query model
Pred(f, k) == [field |-> f, kind |-> k]

\* A query value; absent sort / projection / limit are the empty sequence.
MkQuery(preds, sort, projection, limit) ==
    [predicates |-> preds, sort |-> sort, projection |-> projection, limit |-> limit]

\* Query.from_mql: a filter with an unsupported predicate shape fails validation
ValidFilter(filter) == \A j \in 1..Len(filter) : filter[j].kind # "unsupported"

from_mql(filter) == MkQuery(filter, <<>>, <<>>, <<>>)

Fields(q) == {q.predicates[j].field : j \in 1..Len(q.predicates)}

KindOf(q, f) == (CHOOSE p \in Range(q.predicates) : p.field = f).kind

\* number of leading fields of k usable for filtering q: equality predicates
\* continue the prefix, a range predicate is the last usable position
RECURSIVE PrefixLen(_, _, _)
PrefixLen(q, k, n) ==
    IF n >= Len(k) THEN n
    ELSE IF k[n + 1] \notin Fields(q) THEN n
    ELSE IF KindOf(q, k[n + 1]) = "eq" THEN PrefixLen(q, k, n + 1)
    ELSE n + 1

index_intersect(q, k) ==
    MkQuery([j \in 1..PrefixLen(q, k, 0) |-> Pred(k[j], KindOf(q, k[j]))],
            <<>>, <<>>, <<>>)

is_covered(q, k) ==
    /\ q.projection # <<>>
    /\ (Fields(q) \cup Range(q.sort) \cup Range(q.projection)) \subseteq Range(k)

is_subset(q, k) == Fields(q) \subseteq Range(k)

\* number of leading fields of k filtered by equality predicates of q
RECURSIVE EqPrefixLen(_, _, _)
EqPrefixLen(q, k, n) ==
    IF n >= Len(k) THEN n
    ELSE IF k[n + 1] \in Fields(q) /\ KindOf(q, k[n + 1]) = "eq"
         THEN EqPrefixLen(q, k, n + 1)
    ELSE n

can_use_sort(q, k) ==
    /\ q.sort # <<>>
    /\ SubSeq(k, EqPrefixLen(q, k, 0) + 1, Len(k)) = q.sort

\* ------------------------------------------------------------------ inputs
\* The profiled commands the model reads: each has a filter and optional
\* limit / sort / projection (absent = <<>>).
Doc(filter, limit, sort, projection) ==
    [filter |-> filter, limit |-> limit, sort |-> sort, projection |-> projection]

DocMenu ==
    { Doc(<<Pred("a", "unsupported")>>, <<>>, <<>>, <<>>),        \* fails validation
      Doc(<<Pred("a", "eq")>>, <<>>, <<>>, <<"a">>),               \* covered by (a,)
      Doc(<<Pred("a", "eq")>>, <<>>, <<"b">>, <<>>),               \* sorted on b
      Doc(<<Pred("a", "eq"), Pred("b", "range")>>, <<1>>, <<>>, <<>>), \* limit 1
      Doc(<<Pred("b", "eq")>>, <<>>, <<>>, <<>>),
      Doc(<<>>, <<>>, <<>>, <<>>) }                                \* empty filter

DocSeqs == UNION {[1..n -> DocMenu] : n \in 0..MaxDocs}

\* what SampleEstimator.estimate may return, in half documents: no match,
\* half a document (a fractional extrapolation), 2 documents, 8 documents, ...
EstValues == {0} \cup {Pow2(2 * j) : j \in 0..MaxEstExp}

VARIABLES
    pc,                 \* position in main()
    profile_docs,       \* the commands read from system.profile
    di,                 \* index of the next profile doc of the loop at line 48
    workload,           \* workload.queries
    candidates,         \* the set of candidate indexes
    nq, nc,             \* the scoring loops' positions (lines 116, 118)
    estimate_cache,     \* get_estimate's memo: Query -> estimate
    oracle_calls,       \* Query -> number of estimator.estimate(query) calls
    scores,             \* the static score matrix: row -> candidate -> ticks
    idx_scores,         \* the working matrix, over the remaining columns
    columns,            \* idx_scores.columns
    estimator_indexes,  \* the recommended indexes, in selection order
    i,                  \* the greedy loop's counter (line 175)
    sel_sums,           \* column sum each selected candidate had when selected
    sel_max,            \* largest column sum among the columns at each selection
    last_cell           \* inputs and result of the last scored cell

vars == <<pc, profile_docs, di, workload, candidates, nq, nc, estimate_cache,
          oracle_calls, scores, idx_scores, columns, estimator_indexes, i,
          sel_sums, sel_max, last_cell>>

\* last_cell before any cell is scored
NoCell ==
    [scored |-> FALSE, npreds |-> 0, covered |-> FALSE, est |-> 0,
     sortable |-> FALSE, sort_estimate |-> 0, hit |-> FALSE, cached |-> 0,
     returned |-> 0]

Init ==
    /\ pc = "workload"
    /\ profile_docs \in DocSeqs
    /\ di = 1
    /\ workload = <<>>
    /\ candidates = {}
    /\ nq = 1
    /\ nc = 1
    /\ estimate_cache = <<>>
    /\ oracle_calls = <<>>
    /\ scores = <<>>
    /\ idx_scores = <<>>
    /\ columns = {}
    /\ estimator_indexes = <<>>
    /\ i = 0
    /\ sel_sums = <<>>
    /\ sel_max = <<>>
    /\ last_cell = NoCell

\* ---------------------------------------------------------------- workload
\* lines 50-56: the query of a record whose filter validated
BuildQuery(doc) ==
    [from_mql(doc.filter) EXCEPT !.limit = doc.limit, !.sort = doc.sort,
                                 !.projection = doc.projection]

NextWorkload_keepsInvalid(w, doc) ==
    IF ValidFilter(doc.filter) THEN Append(w, BuildQuery(doc))
    ELSE Append(w, BuildQuery([doc EXCEPT !.filter = <<>>]))

\* one iteration of the loop at lines 48-60
NextWorkload(w, doc) ==
    IF ValidFilter(doc.filter) THEN Append(w, BuildQuery(doc)) ELSE w

LoadDoc ==
    /\ pc = "workload"
    /\ di <= Len(profile_docs)
    /\ workload' = NextWorkload(workload, profile_docs[di])
    /\ di' = di + 1
    /\ UNCHANGED <<pc, profile_docs, candidates, nq, nc, estimate_cache,
                   oracle_calls, scores, idx_scores, columns,
                   estimator_indexes, i, sel_sums, sel_max, last_cell>>

\* -------------------------------------------------------------- candidates
\* itertools.permutations(fields, n)
Permutations_n(S, n) ==
    {s \in [1..n -> S] : \A x, y \in 1..n : x # y => s[x] # s[y]}

\* lines 81-87
GenCandidates(w) ==
    UNION { UNION { Permutations_n(Fields(w[r]), n) :
                    n \in 1..Min(Cardinality(Fields(w[r])), MAX_INDEX_FIELDS) } :
            r \in 1..Len(w) }

\* lines 81-114: the candidates and the zero-initialised score table
Generate ==
    /\ pc = "workload"
    /\ di > Len(profile_docs)
    /\ candidates' = GenCandidates(workload)
    /\ scores' = [r \in 1..Len(workload) |-> [c \in candidates' |-> 0]]
    /\ nq' = 1
    /\ nc' = 1
    /\ pc' = "score"
    /\ UNCHANGED <<profile_docs, di, workload, estimate_cache, oracle_calls,
                   idx_scores, columns, estimator_indexes, i, sel_sums,
                   sel_max, last_cell>>

\* ------------------------------------------------------------------ scoring
\* list(candidates): the column order of the score table.  The iteration
\* order of a Python set is arbitrary but fixed during a run; the model
\* fixes one enumeration (ties of the selection are broken separately).
RECURSIVE SetToSeq(_)
SetToSeq(S) ==
    IF S = {} THEN <<>>
    ELSE LET x == CHOOSE y \in S : TRUE IN <<x>> \o SetToSeq(S \ {x})

CandList == SetToSeq(candidates)

CacheHit_never(cache, q) == FALSE

\* line 98: query in estimate_cache
CacheHit(cache, q) == q \in DOMAIN cache

CountCall(calls, q) ==
    IF q \in DOMAIN calls THEN [calls EXCEPT ![q] = @ + 1] ELSE (q :> 1) @@ calls

\* get_estimate(query), lines 97-105; oracle is what estimator.estimate(query)
\* returns should it be called.  Result: the estimate, the cache and the
\* oracle's call log afterwards.
get_estimate(cache, calls, q, oracle) ==
    IF CacheHit(cache, q)
    THEN [est |-> cache[q], cache |-> cache, calls |-> calls]
    ELSE [est |-> oracle, cache |-> (q :> oracle) @@ cache,
          calls |-> CountCall(calls, q)]

CostX2_fetchAlways(covered) == 2 * FETCH_COST

\* lines 127-130, doubled
CostX2(covered) == IF covered THEN IXSCAN_COST_X2 ELSE 2 * FETCH_COST

\* lines 140-141: min(query.limit, est), est in halves
CapEstimate(q, k, est) ==
    IF q.limit # <<>> /\ is_subset(q, k) THEN Min(2 * q.limit[1], est) ELSE est

FilterBenefit_noNeutral(npreds, covered, est) ==
    4 * TotalCount - est * CostX2(covered)

\* lines 122-145 in ticks: 0 for an index that cannot filter, otherwise
\* get_cardinality() * 1.0 - est * cost
FilterBenefit(npreds, covered, est) ==
    IF npreds = 0 THEN 0 ELSE 4 * TotalCount - est * CostX2(covered)

\* lines 150-151 in ticks: est * log2(est) * SORT_COST with est = max(1, estimate)
SortBonus(estimate) ==
    LET est == Max(2, estimate) \div 2
    IN  4 * est * Log2(est) * SORT_COST

\* lines 121-153: the benefit of one cell from the values that decide it
CellBenefit(npreds, covered, est, sortable, sort_estimate) ==
    FilterBenefit(npreds, covered, est)
        + (IF sortable THEN SortBonus(sort_estimate) ELSE 0)

\* one iteration of the inner loop at lines 118-153
ScoreCell ==
    /\ pc = "score"
    /\ nq <= Len(workload)
    /\ candidates # {}
    /\ LET query == workload[nq]
           candidate == CandList[nc]
           fetch_query == index_intersect(query, candidate)
           npreds == Len(fetch_query.predicates)
           covered == is_covered(query, candidate)
           sortable == can_use_sort(query, candidate)
           \* the oracle answers only the lookups that miss the cache
           asked1 == npreds # 0 /\ ~CacheHit(estimate_cache, fetch_query)
           \* (a sorted query never equals a fetch query, which has no sort)
           asked2 == sortable /\ ~CacheHit(estimate_cache, query)
       IN \E o1 \in (IF asked1 THEN EstValues ELSE {0}),
             o2 \in (IF asked2 THEN EstValues ELSE {0}) :
            LET g1 == IF npreds = 0
                      THEN [est |-> 0, cache |-> estimate_cache, calls |-> oracle_calls]
                      ELSE get_estimate(estimate_cache, oracle_calls, fetch_query, o1)
                est == CapEstimate(query, candidate, g1.est)
                g2 == IF sortable
                      THEN get_estimate(g1.cache, g1.calls, query, o2)
                      ELSE [est |-> 0, cache |-> g1.cache, calls |-> g1.calls]
                benefit == CellBenefit(npreds, covered, est, sortable, g2.est)
                \* the last cache lookup of this cell: was it a hit, and with what
                lastq == IF sortable THEN query ELSE fetch_query
                before == IF sortable THEN g1.cache ELSE estimate_cache
                looked == sortable \/ npreds # 0
                washit == looked /\ lastq \in DOMAIN before
            IN /\ scores' = [scores EXCEPT ![nq][candidate] = benefit]
               /\ estimate_cache' = g2.cache
               /\ oracle_calls' = g2.calls
               /\ last_cell' = [scored |-> TRUE, npreds |-> npreds,
                                covered |-> covered, est |-> est,
                                sortable |-> sortable, sort_estimate |-> g2.est,
                                hit |-> washit,
                                cached |-> IF washit THEN before[lastq] ELSE 0,
                                returned |-> IF sortable THEN g2.est ELSE g1.est]
    /\ IF nc < Cardinality(candidates)
       THEN nc' = nc + 1 /\ nq' = nq
       ELSE nc' = 1 /\ nq' = nq + 1
    /\ UNCHANGED <<pc, profile_docs, di, workload, candidates, idx_scores,
                   columns, estimator_indexes, i, sel_sums, sel_max>>

\* line 174: idx_scores = scores.copy(), once both scoring loops are over
StartGreedy ==
    /\ pc = "score"
    /\ (nq > Len(workload) \/ candidates = {})
    /\ idx_scores' = scores
    /\ columns' = candidates
    /\ i' = 0
    /\ pc' = "select"
    /\ UNCHANGED <<profile_docs, di, workload, candidates, nq, nc,
                   estimate_cache, oracle_calls, scores, estimator_indexes,
                   sel_sums, sel_max, last_cell>>

\* ------------------------------------------------------------------- greedy
Rows == 1..Len(workload)

\* idx_scores.sum(axis=0)[c]
ColSum(W, c) == SumOver([r \in Rows |-> W[r][c]], Rows)

\* line 178: (idx_scores <= 0).values.all()
AllNonPositive(W, cols) == \A r \in Rows : \A c \in cols : W[r][c] <= 0

TopColumns_any(W, cols) == cols

\* lines 182-183: the columns that can head the descending sort of the sums
TopColumns(W, cols) ==
    {c \in cols : \A d \in cols : ColSum(W, d) <= ColSum(W, c)}

LoopContinues_bodyFirst(n, W, cols) ==
    n = 0 \/ (n < Cardinality(candidates) /\ ~AllNonPositive(W, cols))

\* lines 175-179: the loop runs its body while the counter is in
\* range(len(candidates)) and the break condition is false
LoopContinues(n, W, cols) ==
    n < Cardinality(candidates) /\ ~AllNonPositive(W, cols)

DropColumn_keeps(cols, idx) == cols

\* line 186: idx_scores.drop(idx, axis="columns")
DropColumn(cols, idx) == cols \ {idx}

\* lines 175-188: one selection.  With no column left, topscore.index[0]
\* raises IndexError.
Select ==
    /\ pc = "select"
    /\ LoopContinues(i, idx_scores, columns)
    /\ IF columns = {}
       THEN /\ pc' = "error"
            /\ UNCHANGED <<idx_scores, columns, estimator_indexes, sel_sums, sel_max>>
       ELSE \E idx \in TopColumns(idx_scores, columns) :
              /\ columns' = DropColumn(columns, idx)
              /\ idx_scores' = [r \in Rows |-> [c \in columns' |-> idx_scores[r][c]]]
              /\ estimator_indexes' = Append(estimator_indexes, idx)
              /\ sel_sums' = Append(sel_sums, ColSum(idx_scores, idx))
              /\ sel_max' = Append(sel_max,
                      MaxOf({ColSum(idx_scores, c) : c \in columns}))
              /\ pc' = "update"
    /\ UNCHANGED <<profile_docs, di, workload, candidates, nq, nc,
                   estimate_cache, oracle_calls, scores, i, last_cell>>

ExistingScores_withZeros(r) ==
    {scores[r][k] : k \in Range(estimator_indexes)}

\* lines 197-199: the non-zero static scores of the chosen indexes for row r
ExistingScores(r) ==
    {scores[r][k] : k \in Range(estimator_indexes)} \ {0}

Clip_keepsNegative(x) == x

\* line 213: negative values of the row become 0
Clip(x) == IF x < 0 THEN 0 ELSE x

\* lines 194-213 for one row
UpdateRow(W, r) ==
    IF ExistingScores(r) = {} THEN W[r]
    ELSE LET best_existing == MaxOf(ExistingScores(r))
         IN  [c \in columns |-> Clip(scores[r][c] - best_existing)]

\* lines 190-213: the update of every row, and the loop's next iteration
Update ==
    /\ pc = "update"
    /\ idx_scores' = [r \in Rows |-> UpdateRow(idx_scores, r)]
    /\ i' = i + 1
    /\ pc' = "select"
    /\ UNCHANGED <<profile_docs, di, workload, candidates, nq, nc,
                   estimate_cache, oracle_calls, scores, columns,
                   estimator_indexes, sel_sums, sel_max, last_cell>>

\* line 175 exhausted, or the break at line 179
Finish ==
    /\ pc = "select"
    /\ ~LoopContinues(i, idx_scores, columns)
    /\ pc' = "done"
    /\ UNCHANGED <<profile_docs, di, workload, candidates, nq, nc,
                   estimate_cache, oracle_calls, scores, idx_scores, columns,
                   estimator_indexes, i, sel_sums, sel_max, last_cell>>

Next == LoadDoc \/ Generate \/ ScoreCell \/ StartGreedy \/ Select \/ Update \/ Finish

Spec == Init /\ [][Next]_vars

\* ================================================================== claims
Scored == pc \in {"select", "update", "done", "error"}
AfterUpdate == pc \in {"select", "done"} /\ i > 0

\* the non-zero static scores, for row r, of the candidates in R
ChosenNonZero(r) ==
    {x \in {scores[r][estimator_indexes[j]] : j \in 1..Len(estimator_indexes)} : x # 0}

Served(r) == ChosenNonZero(r) # {}

\* C1 as stated: after any update step every entry of the working matrix is >= 0.
C1_AllEntriesNonNegative ==
    AfterUpdate => \A r \in Rows : \A c \in columns : idx_scores[r][c] >= 0

\* C1 amended: after any update step, every row for which some chosen
\* candidate has a non-zero static score has all its entries >= 0.
C1_ServedRowsNonNegative ==
    AfterUpdate =>
        \A r \in Rows : Served(r) => \A c \in columns : idx_scores[r][c] >= 0

\* an update clipped an entry of a served row while an unserved row kept a
\* negative entry
C1_Witness ==
    /\ AfterUpdate
    /\ \E r \in Rows : \E c \in columns :
          /\ Served(r)
          /\ scores[r][c] - MaxOf(ChosenNonZero(r)) < 0
          /\ idx_scores[r][c] = 0
    /\ \E r \in Rows : \E c \in columns : ~Served(r) /\ idx_scores[r][c] < 0

\* C2: the selector runs at most |candidates| iterations and R never holds
\* the same candidate twice, so its length is at most |candidates|.
C2_NoRepeatedSelection ==
    /\ i <= Cardinality(candidates)
    /\ Len(estimator_indexes) <= Cardinality(candidates)
    /\ \A j, k \in 1..Len(estimator_indexes) :
          j # k => estimator_indexes[j] # estimator_indexes[k]

\* every candidate of a set of at least two was selected
C2_Witness ==
    /\ pc = "done"
    /\ Cardinality(candidates) >= 2
    /\ Len(estimator_indexes) = Cardinality(candidates)

\* C3 as stated: a cell whose index_intersect has no predicate scores
\* exactly 0.
C3_NeutralIndexScoresZero ==
    Scored =>
        \A r \in Rows : \A c \in candidates :
            Len(index_intersect(workload[r], c).predicates) = 0 => scores[r][c] = 0

\* C3 amended: a cell whose index_intersect has no predicate scores 0 when
\* the candidate cannot serve the query's sort, and otherwise scores the
\* sort bonus of the whole query's estimate.
C3_NeutralIndexScoresSortBonusOnly ==
    Scored =>
        \A r \in Rows : \A c \in candidates :
            Len(index_intersect(workload[r], c).predicates) = 0 =>
                scores[r][c] =
                    IF can_use_sort(workload[r], c)
                    THEN 4 * (Max(2, estimate_cache[workload[r]]) \div 2)
                           * Log2(Max(2, estimate_cache[workload[r]]) \div 2) * SORT_COST
                    ELSE 0

\* the table holds a neutral cell without sort, and a neutral cell whose
\* sort bonus is not zero
C3_Witness ==
    /\ Scored
    /\ \E r \in Rows : \E c \in candidates :
          /\ Len(index_intersect(workload[r], c).predicates) = 0
          /\ ~can_use_sort(workload[r], c)
    /\ \E r \in Rows : \E c \in candidates :
          /\ Len(index_intersect(workload[r], c).predicates) = 0
          /\ can_use_sort(workload[r], c)
          /\ scores[r][c] > 0

\* C4: the update step leaves row r unchanged when no candidate in R has a
\* non-zero static score for it, and otherwise sets every remaining column c
\* to max(0, ScoreMatrix[r,c] - best), best the largest such score.
C4_UpdateStep ==
    [][pc = "update" =>
         \A r \in Rows :
            IF ChosenNonZero(r) = {}
            THEN idx_scores'[r] = idx_scores[r]
            ELSE \A c \in columns' :
                    idx_scores'[r][c] = Max(0, scores[r][c] - MaxOf(ChosenNonZero(r)))]_vars

\* an update met both cases: an unserved row with a non-zero entry, and a
\* served row with a positive marginal score and a clipped one
C4_Witness ==
    /\ AfterUpdate
    /\ \E r \in Rows : \E c \in columns : ~Served(r) /\ idx_scores[r][c] # 0
    /\ \E r \in Rows : \E c, d \in columns :
          /\ Served(r)
          /\ idx_scores[r][c] > 0
          /\ scores[r][d] - MaxOf(ChosenNonZero(r)) < 0

\* C5 as stated: of two consecutive selections, the earlier had a column sum
\* (when selected) >= the later's (when selected).
C5_SelectionSumsNonIncreasing ==
    \A j \in 1..(Len(sel_sums) - 1) : sel_sums[j] >= sel_sums[j + 1]

\* C5 amended: R is in selection order, every selected candidate had the
\* largest column sum of the columns then remaining, and when the static
\* score matrix has no negative entry the sums of consecutive selections
\* do not increase.
C5_SelectionOrder ==
    /\ Len(sel_sums) = Len(estimator_indexes)
    /\ \A j \in 1..Len(sel_sums) : sel_sums[j] = sel_max[j]
    /\ (\A r \in Rows : \A c \in candidates : scores[r][c] >= 0)
          => \A j \in 1..(Len(sel_sums) - 1) : sel_sums[j] >= sel_sums[j + 1]

\* two selections over a matrix without negative entries, the second with a
\* strictly smaller sum
C5_Witness ==
    /\ Len(sel_sums) >= 2
    /\ \A r \in Rows : \A c \in candidates : scores[r][c] >= 0
    /\ sel_sums[1] > sel_sums[2]
    /\ sel_sums[2] > 0

\* C6: the oracle's estimate is invoked at most once per distinct Query
\* value, and a lookup that finds the query cached returns the cached value.
C6_OracleOncePerQuery ==
    /\ \A q \in DOMAIN oracle_calls : oracle_calls[q] <= 1
    /\ DOMAIN oracle_calls = DOMAIN estimate_cache
    /\ last_cell.hit => last_cell.returned = last_cell.cached

\* a lookup hit the cache after the oracle had answered two distinct queries
C6_Witness ==
    /\ last_cell.hit
    /\ last_cell.returned > 0
    /\ Cardinality(DOMAIN oracle_calls) >= 2

\* the queries of the records of docs whose filter validates, in order
ValidRecords(docs) == SelectSeq(docs, LAMBDA d : ValidFilter(d.filter))

\* C7: a record whose filter fails validation is dropped and the loop goes
\* on: the workload is the valid records' queries in their original order.
C7_WorkloadIsValidRecords ==
    LET seen == ValidRecords(SubSeq(profile_docs, 1, di - 1))
    IN  /\ Len(workload) = Len(seen)
        /\ \A j \in 1..Len(seen) :
              /\ workload[j].predicates = seen[j].filter
              /\ workload[j].limit = seen[j].limit
              /\ workload[j].sort = seen[j].sort
              /\ workload[j].projection = seen[j].projection
        /\ pc # "workload" => di = Len(profile_docs) + 1

\* the loop went past an invalid record and appended the valid one after it
C7_Witness ==
    /\ pc # "workload"
    /\ Len(profile_docs) = 2
    /\ ~ValidFilter(profile_docs[1].filter)
    /\ ValidFilter(profile_docs[2].filter)
    /\ Len(workload) = 1

\* C8: with an empty workload or an empty candidate set the selector makes
\* no selection, raises no error and leaves R empty.
C8_EmptyInputsSelectNothing ==
    (Scored /\ (workload = <<>> \/ candidates = {})) =>
        /\ pc \in {"select", "done"}
        /\ estimator_indexes = <<>>
        /\ i = 0

\* the selector finished over a non-empty workload without candidates
C8_Witness ==
    /\ pc = "done"
    /\ workload # <<>>
    /\ candidates = {}
    /\ estimator_indexes = <<>>

\* C9 as stated: for a cell whose index_intersect has a predicate, the
\* benefit with is_covered true is strictly greater than with it false, the
\* other inputs being those of the cell.
C9_CoveredStrictlyBetter ==
    (last_cell.scored /\ last_cell.npreds > 0) =>
        CellBenefit(last_cell.npreds, TRUE, last_cell.est, last_cell.sortable,
                    last_cell.sort_estimate)
          > CellBenefit(last_cell.npreds, FALSE, last_cell.est, last_cell.sortable,
                        last_cell.sort_estimate)

\* C9 amended: the benefit with is_covered true is never smaller than with
\* it false, and strictly greater when the estimate used (after the limit
\* cap) is greater than 0.
C9_CoveredNeverWorse ==
    (last_cell.scored /\ last_cell.npreds > 0) =>
        LET cov == CellBenefit(last_cell.npreds, TRUE, last_cell.est,
                               last_cell.sortable, last_cell.sort_estimate)
            unc == CellBenefit(last_cell.npreds, FALSE, last_cell.est,
                               last_cell.sortable, last_cell.sort_estimate)
        IN  /\ cov >= unc
            /\ last_cell.est > 0 => cov > unc
            /\ last_cell.est = 0 => cov = unc

\* a covered cell was scored from a positive estimate
C9_Witness ==
    /\ last_cell.scored
    /\ last_cell.npreds > 0
    /\ last_cell.covered
    /\ last_cell.est > 0

\* C10: every candidate appended to R had a strictly positive column sum in
\* the working matrix when it was selected.
C10_SelectedSumPositive ==
    \A j \in 1..Len(sel_sums) : sel_sums[j] > 0
====
